---- MODULE Spec2Model ----
(***************************************************************************)
(* The three model-backed inference services of src/server/python:         *)
(*   translation_server.py  POST /translate  (Mistral, loaded at import)   *)
(*   tts_server.py          POST /tts        (XTTS v2, loaded at import)   *)
(*   whisper_server.py      POST /transcribe (Whisper, loaded lazily)      *)
(* One behaviour is one process of one of the three servers.  Handlers are *)
(* `async def` coroutines on the single uvicorn event loop: a handler      *)
(* keeps the loop from its first statement until it returns, raises or     *)
(* reaches an `await`.  Every statement group of a handler is one action;  *)
(* `running` is the request that holds the event loop (0 when none does).  *)
(***************************************************************************)
EXTENDS Integers, Sequences, FiniteSets, TLC

\* ---------------------------------------------------------------- bounds
NumReq == 2          \* requests a process receives
MaxRuns == 2         \* runs of equal characters in a request text

\* ------------------------------------------------------- program constants
MaxTextLen == 1000   \* translation_server.py:137

Req == 1..NumReq
None == 0

Servers == {"translate", "tts", "whisper"}

\* ------------------------------------------------------------------ texts
\* A text is a sequence of runs: <<[ch |-> "a", n |-> 1000], [ch |-> " ", n |-> 1]>>
\* is 1000 letters followed by one blank.
Runs == { [ch |-> " ", n |-> 1], [ch |-> "a", n |-> 1], [ch |-> "a", n |-> MaxTextLen] }
Texts == UNION { [1..k -> Runs] : k \in 0..MaxRuns }

\* len(text)
RECURSIVE Len_(_)
Len_(t) == IF t = <<>> THEN 0 ELSE Head(t).n + Len_(Tail(t))

\* str.isspace() of one character
IsSpace(ch) == ch = " "

Front(t) == SubSeq(t, 1, Len(t) - 1)
Last(t) == t[Len(t)]

RECURSIVE LStrip(_)
LStrip(t) == IF t = <<>> THEN t
             ELSE IF IsSpace(Head(t).ch) THEN LStrip(Tail(t)) ELSE t

RECURSIVE RStrip(_)
RStrip(t) == IF t = <<>> THEN t
             ELSE IF IsSpace(Last(t).ch) THEN RStrip(Front(t)) ELSE t

\* text.strip(): leading and trailing whitespace removed
Strip(t) == RStrip(LStrip(t))

\* ------------------------------------------------------------- exceptions
ErrMsgs == {"CUDA out of memory", "device-side assert"}
MsgEmpty == "Empty text provided for translation"
MsgTooLong == "Text exceeds maximum length of 1000 characters"

NoExc == [type |-> "none", origin |-> "none", status |-> 0, msg |-> ""]
\* raise HTTPException(status_code=s, detail=d)
HTTPException(s, d) == [type |-> "HTTPException", origin |-> "validate", status |-> s, msg |-> d]
\* an exception raised by a library call made at `origin`
Raised(origin, m) == [type |-> "Exception", origin |-> origin, status |-> 0, msg |-> m]
\* Str for a handler that hides the cause from the caller
StrOpaque(e) == "Internal Server Error"

\* str(e)
Str(e) == e.msg

NoResp == [status |-> 0, detail |-> <<>>]
Ok200 == [status |-> 200, detail |-> <<>>]

VARIABLES
  server,      \* which of the three programs this process runs
  proc,        \* "starting", "serving" or "aborted"
  local_pipe,  \* whisper_server.local_pipe: None or the pipeline object
  loads,       \* how many times the model-loading body has been entered
  loadFailed,  \* a model load has thrown in this process
  running,     \* the request whose coroutine holds the event loop, or None
  files,       \* temporary files that exist on disk
  pc,          \* per request: position of its handler
  req,         \* per request: the request as received
  resp,        \* per request: the HTTP response sent
  exc,         \* per request: the exception in flight or handled
  calls,       \* per request: model calls entered
  tokenized,   \* per request: tokenizer.apply_chat_template was called
  timed,       \* per request: stages whose duration has been computed
  emitted,     \* per request: stages whose duration has been logged or returned
  speaker_wav, \* per request (tts): local speaker_wav, None or a file name
  temp_file,   \* per request (tts): the file NamedTemporaryFile created
  pipe_used,   \* per request (whisper): the pipeline object it called
  init_calls,  \* direct calls of initialize_model() made so far
  ret,         \* what the last direct call of initialize_model() returned
  load_by,     \* history: the requests that entered the loading body
  overlap,     \* history, per /transcribe request: the requests that were
               \* in progress when it arrived
  owner,       \* history, per existing temporary file: the request whose
               \* NamedTemporaryFile call created it
  raw,         \* post-processing: the text batch_decode returned
  translation, \* post-processing: the local `translation`
  post         \* post-processing: position in lines 190-198

vars == <<server, proc, local_pipe, loads, loadFailed, running, files, pc, req,
          resp, exc, calls, tokenized, timed, emitted, speaker_wav, temp_file,
          pipe_used, init_calls, ret, load_by, overlap, owner, raw,
          translation, post>>

procVars == <<server, proc>>
pipeVars == <<local_pipe, loads, loadFailed, init_calls, ret>>
ttsVars == <<files, speaker_wav, temp_file>>
ghostVars == <<load_by, overlap, owner>>
cleanVars == <<raw, translation, post>>

NoReq == [text |-> <<>>, audio |-> FALSE, b64ok |-> FALSE]

Init ==
  /\ server \in Servers
  /\ proc = "starting"
  /\ local_pipe = None
  /\ loads = 0
  /\ loadFailed = FALSE
  /\ running = None
  /\ files = {}
  /\ pc = [r \in Req |-> "idle"]
  /\ req = [r \in Req |-> NoReq]
  /\ resp = [r \in Req |-> NoResp]
  /\ exc = [r \in Req |-> NoExc]
  /\ calls = [r \in Req |-> 0]
  /\ tokenized = [r \in Req |-> FALSE]
  /\ timed = [r \in Req |-> {}]
  /\ emitted = [r \in Req |-> {}]
  /\ speaker_wav = [r \in Req |-> None]
  /\ temp_file = [r \in Req |-> None]
  /\ pipe_used = [r \in Req |-> None]
  /\ init_calls = 0
  /\ ret = None
  /\ load_by = {}
  /\ overlap = [r \in Req |-> {}]
  /\ owner = [f \in {} |-> None]
  /\ raw = <<>>
  /\ translation = <<>>
  /\ post = "off"

\* ------------------------------------------------------------- event loop
\* Yields for handlers run in a thread pool (plain `def`): another request
\* can run between any two statements
YieldsEverywhere(p) == TRUE

\* Positions at which a coroutine has given up the event loop: it has
\* finished, or it is suspended in `await speaker_audio.read()`.
Yields(p) == p \in {"done", "await_read"}

\* Request r may execute its next statement.
CanRun(r) == running \in {None, r}

\* Requests are numbered in the order in which the process receives them.
NextToArrive(r) == pc[r] = "idle" /\ \A q \in Req : q < r => pc[q] # "idle"

\* r moves to position p; the loop is released exactly at a yield position.
Goto(r, p) ==
  /\ pc' = [pc EXCEPT ![r] = p]
  /\ running' = IF Yields(p) THEN None ELSE r

\* ---------------------------------------------------------- process start
\* Module-level initialisation of translation_server.py and tts_server.py:
\* the load either succeeds or throws, and `raise e` aborts the import.
ModuleInit ==
  /\ proc = "starting"
  /\ server \in {"translate", "tts"}
  /\ \E ok \in BOOLEAN :
       /\ proc' = IF ok THEN "serving" ELSE "aborted"
       /\ loadFailed' = ~ok
  /\ loads' = loads + 1
  /\ UNCHANGED <<cleanVars, ghostVars, server, local_pipe, init_calls, ret, running,
                 files, pc, req, resp, exc, calls, tokenized, timed, emitted,
                 speaker_wav, temp_file, pipe_used>>

\* whisper_server.py loads nothing at import: local_pipe = None.
ModuleInitLazy ==
  /\ proc = "starting"
  /\ server = "whisper"
  /\ proc' = "serving"
  /\ UNCHANGED <<cleanVars, ghostVars, server, pipeVars, running, files, pc, req, resp, exc, calls,
                 tokenized, timed, emitted, speaker_wav, temp_file, pipe_used>>

\* ------------------------------------------------------------- /translate
\* A request is received and its coroutine is scheduled.
TranslateArrive(r) ==
  /\ server = "translate" /\ proc = "serving"
  /\ NextToArrive(r)
  /\ \E t \in Texts : req' = [req EXCEPT ![r] = [NoReq EXCEPT !.text = t]]
  /\ pc' = [pc EXCEPT ![r] = "start"]
  /\ UNCHANGED <<cleanVars, ghostVars, procVars, pipeVars, running, ttsVars, resp, exc, calls,
                 tokenized, timed, emitted, pipe_used>>

\* ValidationError with the length test written `>=`
ValidationErrorOffByOne(text) ==
  IF Strip(text) = <<>> THEN HTTPException(400, MsgEmpty)
  ELSE IF Len_(text) >= MaxTextLen THEN HTTPException(400, MsgTooLong)
  ELSE NoExc

\* the two `if` tests of lines 131 and 137, in order
ValidationError(text) ==
  IF Strip(text) = <<>> THEN HTTPException(400, MsgEmpty)
  ELSE IF Len_(text) > MaxTextLen THEN HTTPException(400, MsgTooLong)
  ELSE NoExc

TranslateValidate(r) ==
  /\ server = "translate" /\ pc[r] = "start" /\ CanRun(r)
  /\ LET e == ValidationError(req[r].text) IN
       IF e # NoExc
       THEN /\ exc' = [exc EXCEPT ![r] = e]
            /\ Goto(r, "except")
       ELSE /\ exc' = exc
            /\ Goto(r, "tokenize")
  /\ UNCHANGED <<cleanVars, ghostVars, procVars, pipeVars, ttsVars, req, resp, calls, tokenized,
                 timed, emitted, pipe_used>>

\* lines 143-171: prompt, apply_chat_template, tokenize_time
TranslateTokenize(r) ==
  /\ server = "translate" /\ pc[r] = "tokenize" /\ CanRun(r)
  /\ tokenized' = [tokenized EXCEPT ![r] = TRUE]
  /\ timed' = [timed EXCEPT ![r] = @ \cup {"prompt"}]
  /\ Goto(r, "generate")
  /\ UNCHANGED <<cleanVars, ghostVars, procVars, pipeVars, ttsVars, req, resp, exc, calls, emitted,
                 pipe_used>>

\* line 176: model.generate is entered
TranslateGenerate(r) ==
  /\ server = "translate" /\ pc[r] = "generate" /\ CanRun(r)
  /\ calls' = [calls EXCEPT ![r] = @ + 1]
  /\ Goto(r, "in_generate")
  /\ UNCHANGED <<cleanVars, ghostVars, procVars, pipeVars, ttsVars, req, resp, exc, tokenized, timed,
                 emitted, pipe_used>>

\* model.generate returns; line 186 computes generate_time
TranslateGenerateOk(r) ==
  /\ server = "translate" /\ pc[r] = "in_generate" /\ CanRun(r)
  /\ timed' = [timed EXCEPT ![r] = @ \cup {"generation"}]
  /\ Goto(r, "decode")
  /\ UNCHANGED <<cleanVars, ghostVars, procVars, pipeVars, ttsVars, req, resp, exc, calls, tokenized,
                 emitted, pipe_used>>

\* model.generate raises
TranslateGenerateRaise(r) ==
  /\ server = "translate" /\ pc[r] = "in_generate" /\ CanRun(r)
  /\ \E m \in ErrMsgs : exc' = [exc EXCEPT ![r] = Raised("model", m)]
  /\ Goto(r, "except")
  /\ UNCHANGED <<cleanVars, ghostVars, procVars, pipeVars, ttsVars, req, resp, calls, tokenized,
                 timed, emitted, pipe_used>>

\* lines 189-221: decode, cleanup, the latency log, the response
TranslateFinish(r) ==
  /\ server = "translate" /\ pc[r] = "decode" /\ CanRun(r)
  /\ timed' = [timed EXCEPT ![r] = @ \cup {"decoding"}]
  /\ emitted' = [emitted EXCEPT ![r] = {"prompt", "generation", "decoding"}]
  /\ resp' = [resp EXCEPT ![r] = Ok200]
  /\ Goto(r, "done")
  /\ UNCHANGED <<cleanVars, ghostVars, procVars, pipeVars, ttsVars, req, exc, calls, tokenized,
                 pipe_used>>

\* lines 223-228: except Exception as e -> HTTPException(500, ...)
TranslateExcept(r) ==
  /\ server = "translate" /\ pc[r] = "except" /\ CanRun(r)
  /\ resp' = [resp EXCEPT ![r] =
                [status |-> 500, detail |-> <<"Translation failed: ", Str(exc[r])>>]]
  /\ Goto(r, "done")
  /\ UNCHANGED <<cleanVars, ghostVars, procVars, pipeVars, ttsVars, req, exc, calls, tokenized,
                 timed, emitted, pipe_used>>

\* ------------------------------------------------------------------- /tts
FileNames == 1..NumReq

\* MissingRequired with the part declared optional, File(None)
MissingRequiredOptional(q) == FALSE

\* speaker_audio: UploadFile = File(...): the part is required
MissingRequired(q) == ~q.audio

\* A request is received.  FastAPI validates the form against the handler's
\* signature before calling it: without the required file part it answers
\* 422 and text_to_speech is not called.
TtsArrive(r) ==
  /\ server = "tts" /\ proc = "serving"
  /\ NextToArrive(r)
  /\ \E a \in BOOLEAN :
       LET q == [NoReq EXCEPT !.audio = a] IN
         /\ req' = [req EXCEPT ![r] = q]
         /\ IF MissingRequired(q)
            THEN /\ resp' = [resp EXCEPT ![r] =
                               [status |-> 422, detail |-> <<"Field required">>]]
                 /\ pc' = [pc EXCEPT ![r] = "done"]
            ELSE /\ resp' = resp
                 /\ pc' = [pc EXCEPT ![r] = "start"]
  /\ UNCHANGED <<cleanVars, ghostVars, procVars, pipeVars, running, ttsVars, exc, calls, tokenized,
                 timed, emitted, pipe_used>>

\* lines 88-105: up to `await speaker_audio.read()`, inside the `with` that
\* has created the temporary file (delete=False)
TtsOpenTemp(r) ==
  /\ server = "tts" /\ pc[r] = "start" /\ CanRun(r)
  /\ \E f \in FileNames \ files :
       /\ files' = files \cup {f}
       /\ temp_file' = [temp_file EXCEPT ![r] = f]
       /\ owner' = [g \in files \cup {f} |-> IF g = f THEN r ELSE owner[g]]
  /\ Goto(r, "await_read")
  /\ UNCHANGED <<cleanVars, load_by, overlap, procVars, pipeVars, speaker_wav, req, resp, exc, calls,
                 tokenized, timed, emitted, pipe_used>>

\* the read completes and the coroutine is resumed
TtsReadOk(r) ==
  /\ server = "tts" /\ pc[r] = "await_read" /\ CanRun(r)
  /\ req[r].audio
  /\ Goto(r, "write")
  /\ UNCHANGED <<cleanVars, ghostVars, procVars, pipeVars, ttsVars, req, resp, exc, calls, tokenized,
                 timed, emitted, pipe_used>>

\* the read raises (no upload object to read, or an I/O error): the `with`
\* closes the file, speaker_wav is still None
TtsReadRaise(r) ==
  /\ server = "tts" /\ pc[r] = "await_read" /\ CanRun(r)
  /\ exc' = [exc EXCEPT ![r] = Raised("read", "read failed")]
  /\ Goto(r, "finally")
  /\ UNCHANGED <<cleanVars, ghostVars, procVars, pipeVars, ttsVars, req, resp, calls, tokenized,
                 timed, emitted, pipe_used>>

\* lines 106-109: write, speaker_wav = temp_file.name, file_time logged
TtsWriteOk(r) ==
  /\ server = "tts" /\ pc[r] = "write" /\ CanRun(r)
  /\ speaker_wav' = [speaker_wav EXCEPT ![r] = temp_file[r]]
  /\ timed' = [timed EXCEPT ![r] = @ \cup {"file_handling"}]
  /\ emitted' = [emitted EXCEPT ![r] = @ \cup {"file_handling"}]
  /\ Goto(r, "latents")
  /\ UNCHANGED <<cleanVars, ghostVars, procVars, pipeVars, files, temp_file, req, resp, exc, calls,
                 tokenized, pipe_used>>

\* temp_file.write raises (disk full)
TtsWriteRaise(r) ==
  /\ server = "tts" /\ pc[r] = "write" /\ CanRun(r)
  /\ exc' = [exc EXCEPT ![r] = Raised("write", "No space left on device")]
  /\ Goto(r, "finally")
  /\ UNCHANGED <<cleanVars, ghostVars, procVars, pipeVars, ttsVars, req, resp, calls, tokenized,
                 timed, emitted, pipe_used>>

\* line 113: model.get_conditioning_latents is entered
TtsLatents(r) ==
  /\ server = "tts" /\ pc[r] = "latents" /\ CanRun(r)
  /\ calls' = [calls EXCEPT ![r] = @ + 1]
  /\ Goto(r, "in_latents")
  /\ UNCHANGED <<cleanVars, ghostVars, procVars, pipeVars, ttsVars, req, resp, exc, tokenized, timed,
                 emitted, pipe_used>>

TtsLatentsOk(r) ==
  /\ server = "tts" /\ pc[r] = "in_latents" /\ CanRun(r)
  /\ Goto(r, "inference")
  /\ UNCHANGED <<cleanVars, ghostVars, procVars, pipeVars, ttsVars, req, resp, exc, calls, tokenized,
                 timed, emitted, pipe_used>>

TtsLatentsRaise(r) ==
  /\ server = "tts" /\ pc[r] = "in_latents" /\ CanRun(r)
  /\ \E m \in ErrMsgs : exc' = [exc EXCEPT ![r] = Raised("model", m)]
  /\ Goto(r, "finally")
  /\ UNCHANGED <<cleanVars, ghostVars, procVars, pipeVars, ttsVars, req, resp, calls, tokenized,
                 timed, emitted, pipe_used>>

\* line 120: model.inference is entered
TtsInference(r) ==
  /\ server = "tts" /\ pc[r] = "inference" /\ CanRun(r)
  /\ calls' = [calls EXCEPT ![r] = @ + 1]
  /\ Goto(r, "in_inference")
  /\ UNCHANGED <<cleanVars, ghostVars, procVars, pipeVars, ttsVars, req, resp, exc, tokenized, timed,
                 emitted, pipe_used>>

\* model.inference returns; line 129 computes generation_time
TtsInferenceOk(r) ==
  /\ server = "tts" /\ pc[r] = "in_inference" /\ CanRun(r)
  /\ timed' = [timed EXCEPT ![r] = @ \cup {"generation"}]
  /\ Goto(r, "encode")
  /\ UNCHANGED <<cleanVars, ghostVars, procVars, pipeVars, ttsVars, req, resp, exc, calls, tokenized,
                 emitted, pipe_used>>

TtsInferenceRaise(r) ==
  /\ server = "tts" /\ pc[r] = "in_inference" /\ CanRun(r)
  /\ \E m \in ErrMsgs : exc' = [exc EXCEPT ![r] = Raised("model", m)]
  /\ Goto(r, "finally")
  /\ UNCHANGED <<cleanVars, ghostVars, procVars, pipeVars, ttsVars, req, resp, calls, tokenized,
                 timed, emitted, pipe_used>>

\* lines 132-186: normalise, sf.write, the latency log, the return value
TtsEncodeOk(r) ==
  /\ server = "tts" /\ pc[r] = "encode" /\ CanRun(r)
  /\ timed' = [timed EXCEPT ![r] = @ \cup {"processing"}]
  /\ emitted' = [emitted EXCEPT ![r] = {"file_handling", "generation", "processing"}]
  /\ Goto(r, "finally")
  /\ UNCHANGED <<cleanVars, ghostVars, procVars, pipeVars, ttsVars, req, resp, exc, calls, tokenized,
                 pipe_used>>

\* the audio conversion or sf.write raises
TtsEncodeRaise(r) ==
  /\ server = "tts" /\ pc[r] = "encode" /\ CanRun(r)
  /\ exc' = [exc EXCEPT ![r] = Raised("encode", "Error opening buffer")]
  /\ Goto(r, "finally")
  /\ UNCHANGED <<cleanVars, ghostVars, procVars, pipeVars, ttsVars, req, resp, calls, tokenized,
                 timed, emitted, pipe_used>>

\* lines 188-192: finally: unlink speaker_wav if set and present; then the
\* pending return (200) or the pending exception (to the outer except)
TtsFinally(r) ==
  /\ server = "tts" /\ pc[r] = "finally" /\ CanRun(r)
  /\ files' = IF speaker_wav[r] # None /\ speaker_wav[r] \in files
              THEN files \ {speaker_wav[r]} ELSE files
  /\ owner' = [g \in files' |-> owner[g]]
  /\ IF exc[r] = NoExc
     THEN /\ resp' = [resp EXCEPT ![r] = Ok200]
          /\ Goto(r, "done")
     ELSE /\ resp' = resp
          /\ Goto(r, "except")
  /\ UNCHANGED <<cleanVars, load_by, overlap, procVars, pipeVars, speaker_wav, temp_file, req, exc, calls,
                 tokenized, timed, emitted, pipe_used>>

\* lines 194-199
TtsExcept(r) ==
  /\ server = "tts" /\ pc[r] = "except" /\ CanRun(r)
  /\ resp' = [resp EXCEPT ![r] =
                [status |-> 500, detail |-> <<"TTS generation failed: ", Str(exc[r])>>]]
  /\ Goto(r, "done")
  /\ UNCHANGED <<cleanVars, ghostVars, procVars, pipeVars, ttsVars, req, exc, calls, tokenized,
                 timed, emitted, pipe_used>>

\* ------------------------------------------------------------ /transcribe
MaxInitCalls == 2    \* direct calls of initialize_model() in one behaviour

\* AlreadyLoaded with the early return dropped
AlreadyLoadedNever(lp) == FALSE

\* line 30: `if local_pipe is not None: return local_pipe`
AlreadyLoaded(lp) == lp # None

\* line 109: `if local_pipe is None:`
NeedsInit(lp) == lp = None

\* the object pipeline(...) returns: a new one at every load
NewPipe == loads + 1

TranscribeArrive(r) ==
  /\ server = "whisper" /\ proc = "serving"
  /\ NextToArrive(r)
  /\ \E b \in BOOLEAN : req' = [req EXCEPT ![r] = [NoReq EXCEPT !.b64ok = b]]
  /\ pc' = [pc EXCEPT ![r] = "start"]
  /\ overlap' = [overlap EXCEPT ![r] = { q \in Req : pc[q] \notin {"idle", "done"} }]
  /\ UNCHANGED <<cleanVars, load_by, owner, procVars, pipeVars, running, ttsVars, resp, exc, calls,
                 tokenized, timed, emitted, pipe_used>>

\* lines 105-111: the handler calls initialize_model() only without a pipeline
TranscribeStart(r) ==
  /\ server = "whisper" /\ pc[r] = "start" /\ CanRun(r)
  /\ IF NeedsInit(local_pipe) THEN Goto(r, "init") ELSE Goto(r, "b64decode")
  /\ UNCHANGED <<cleanVars, ghostVars, procVars, pipeVars, ttsVars, req, resp, exc, calls, tokenized,
                 timed, emitted, pipe_used>>

\* lines 28-34: initialize_model() as called by the handler: it returns the
\* pipeline it finds, or enters the loading body
InitializeModel(r) ==
  /\ server = "whisper" /\ pc[r] = "init" /\ CanRun(r)
  /\ IF AlreadyLoaded(local_pipe)
     THEN /\ loads' = loads
          /\ load_by' = load_by
          /\ timed' = [timed EXCEPT ![r] = @ \cup {"init"}]
          /\ emitted' = [emitted EXCEPT ![r] = @ \cup {"init"}]
          /\ Goto(r, "b64decode")
     ELSE /\ loads' = loads + 1
          /\ load_by' = load_by \cup {r}
          /\ UNCHANGED <<timed, emitted>>
          /\ Goto(r, "in_load")
  /\ UNCHANGED <<cleanVars, overlap, owner, procVars, local_pipe, loadFailed, init_calls, ret, ttsVars,
                 req, resp, exc, calls, tokenized, pipe_used>>

\* lines 57-96 succeed: local_pipe is set; lines 111-113 log init_time
LoadOk(r) ==
  /\ server = "whisper" /\ pc[r] = "in_load" /\ CanRun(r)
  /\ local_pipe' = loads      \* the object built by this load
  /\ timed' = [timed EXCEPT ![r] = @ \cup {"init"}]
  /\ emitted' = [emitted EXCEPT ![r] = @ \cup {"init"}]
  /\ Goto(r, "b64decode")
  /\ UNCHANGED <<cleanVars, ghostVars, procVars, loads, loadFailed, init_calls, ret, ttsVars, req,
                 resp, exc, calls, tokenized, pipe_used>>

\* lines 97-99: the load throws, initialize_model re-raises into the handler
LoadRaise(r) ==
  /\ server = "whisper" /\ pc[r] = "in_load" /\ CanRun(r)
  /\ \E m \in ErrMsgs : exc' = [exc EXCEPT ![r] = Raised("load", m)]
  /\ loadFailed' = TRUE
  /\ Goto(r, "except")
  /\ UNCHANGED <<cleanVars, ghostVars, procVars, local_pipe, loads, init_calls, ret, ttsVars, req,
                 resp, calls, tokenized, timed, emitted, pipe_used>>

\* lines 116-118: base64.b64decode raises on malformed input
TranscribeDecode(r) ==
  /\ server = "whisper" /\ pc[r] = "b64decode" /\ CanRun(r)
  /\ IF req[r].b64ok
     THEN /\ timed' = [timed EXCEPT ![r] = @ \cup {"decode"}]
          /\ exc' = exc
          /\ Goto(r, "pipe")
     ELSE /\ timed' = timed
          /\ exc' = [exc EXCEPT ![r] = Raised("b64decode", "Incorrect padding")]
          /\ Goto(r, "except")
  /\ UNCHANGED <<cleanVars, ghostVars, procVars, pipeVars, ttsVars, req, resp, calls, tokenized,
                 emitted, pipe_used>>

\* line 122: local_pipe(...) is entered
TranscribePipe(r) ==
  /\ server = "whisper" /\ pc[r] = "pipe" /\ CanRun(r)
  /\ calls' = [calls EXCEPT ![r] = @ + 1]
  /\ pipe_used' = [pipe_used EXCEPT ![r] = local_pipe]
  /\ Goto(r, "in_pipe")
  /\ UNCHANGED <<cleanVars, ghostVars, procVars, pipeVars, ttsVars, req, resp, exc, tokenized, timed,
                 emitted>>

\* lines 130-144: inference_time, the latency log, the response
TranscribePipeOk(r) ==
  /\ server = "whisper" /\ pc[r] = "in_pipe" /\ CanRun(r)
  /\ timed' = [timed EXCEPT ![r] = @ \cup {"inference"}]
  /\ emitted' = [emitted EXCEPT ![r] = @ \cup {"decode", "inference"}]
  /\ resp' = [resp EXCEPT ![r] = Ok200]
  /\ Goto(r, "done")
  /\ UNCHANGED <<cleanVars, ghostVars, procVars, pipeVars, ttsVars, req, exc, calls, tokenized,
                 pipe_used>>

TranscribePipeRaise(r) ==
  /\ server = "whisper" /\ pc[r] = "in_pipe" /\ CanRun(r)
  /\ \E m \in ErrMsgs : exc' = [exc EXCEPT ![r] = Raised("model", m)]
  /\ Goto(r, "except")
  /\ UNCHANGED <<cleanVars, ghostVars, procVars, pipeVars, ttsVars, req, resp, calls, tokenized,
                 timed, emitted, pipe_used>>

\* lines 146-151
TranscribeExcept(r) ==
  /\ server = "whisper" /\ pc[r] = "except" /\ CanRun(r)
  /\ resp' = [resp EXCEPT ![r] =
                [status |-> 500, detail |-> <<"Transcription failed: ", Str(exc[r])>>]]
  /\ Goto(r, "done")
  /\ UNCHANGED <<cleanVars, ghostVars, procVars, pipeVars, ttsVars, req, exc, calls, tokenized,
                 timed, emitted, pipe_used>>

\* initialize_model() called on its own (a warm-up call between requests):
\* the whole function, lines 28-99, returning normally
InitializeCallOk ==
  /\ server = "whisper" /\ proc = "serving" /\ running = None
  /\ init_calls < MaxInitCalls
  /\ init_calls' = init_calls + 1
  /\ IF AlreadyLoaded(local_pipe)
     THEN /\ UNCHANGED <<local_pipe, loads>>
          /\ ret' = local_pipe
     ELSE /\ loads' = loads + 1
          /\ local_pipe' = NewPipe
          /\ ret' = NewPipe
  /\ UNCHANGED <<cleanVars, ghostVars, procVars, loadFailed, running, ttsVars, pc, req, resp, exc,
                 calls, tokenized, timed, emitted, pipe_used>>

\* the same call when the load throws: nothing is returned
InitializeCallRaise ==
  /\ server = "whisper" /\ proc = "serving" /\ running = None
  /\ init_calls < MaxInitCalls
  /\ ~AlreadyLoaded(local_pipe)
  /\ init_calls' = init_calls + 1
  /\ loads' = loads + 1
  /\ loadFailed' = TRUE
  /\ ret' = None
  /\ UNCHANGED <<cleanVars, ghostVars, procVars, local_pipe, running, ttsVars, pc, req, resp, exc,
                 calls, tokenized, timed, emitted, pipe_used>>

NextTranslate(r) ==
  \/ TranslateArrive(r)
  \/ TranslateValidate(r)
  \/ TranslateTokenize(r)
  \/ TranslateGenerate(r)
  \/ TranslateGenerateOk(r)
  \/ TranslateGenerateRaise(r)
  \/ TranslateFinish(r)
  \/ TranslateExcept(r)

NextTts(r) ==
  \/ TtsArrive(r)
  \/ TtsOpenTemp(r)
  \/ TtsReadOk(r)
  \/ TtsReadRaise(r)
  \/ TtsWriteOk(r)
  \/ TtsWriteRaise(r)
  \/ TtsLatents(r)
  \/ TtsLatentsOk(r)
  \/ TtsLatentsRaise(r)
  \/ TtsInference(r)
  \/ TtsInferenceOk(r)
  \/ TtsInferenceRaise(r)
  \/ TtsEncodeOk(r)
  \/ TtsEncodeRaise(r)
  \/ TtsFinally(r)
  \/ TtsExcept(r)

NextTranscribe(r) ==
  \/ TranscribeArrive(r)
  \/ TranscribeStart(r)
  \/ InitializeModel(r)
  \/ LoadOk(r)
  \/ LoadRaise(r)
  \/ TranscribeDecode(r)
  \/ TranscribePipe(r)
  \/ TranscribePipeOk(r)
  \/ TranscribePipeRaise(r)
  \/ TranscribeExcept(r)

Next ==
  \/ ModuleInit
  \/ ModuleInitLazy
  \/ \E r \in Req : NextTranslate(r)
  \/ \E r \in Req : NextTts(r)
  \/ \E r \in Req : NextTranscribe(r)

\* One process of any of the three servers, driven by its HTTP requests.
Spec == Init /\ [][Next]_vars

\* The transcription server with initialize_model() also called directly.
InitWarm == Init /\ server = "whisper"

NextWarm ==
  \/ ModuleInitLazy
  \/ \E r \in Req : NextTranscribe(r)
  \/ InitializeCallOk
  \/ InitializeCallRaise

SpecWarm == InitWarm /\ [][NextWarm]_vars

\* ------------------------------------------ /translate: post-processing
\* Lines 190-198 as a function of the decoded output.  A decoded output is a
\* sequence of characters: a letter, the blank, the two parentheses and the
\* two quote characters.
MaxOut == 5          \* characters in a decoded output

OutChars == {"a", " ", "(", ")", "\"", "'"}
Outputs == UNION { [1..k -> OutChars] : k \in 0..MaxOut }

Whitespace == {" "}
QuoteChars == {"\"", "'"}

RECURSIVE LStripChars(_, _)
LStripChars(s, cs) == IF s = <<>> THEN s
                      ELSE IF Head(s) \in cs THEN LStripChars(Tail(s), cs) ELSE s

RECURSIVE RStripChars(_, _)
RStripChars(s, cs) == IF s = <<>> THEN s
                      ELSE IF Last(s) \in cs THEN RStripChars(Front(s), cs) ELSE s

\* s.strip(chars)
StripChars(s, cs) == RStripChars(LStripChars(s, cs), cs)

\* The length of the match of \s*\([^)]*\) at the start of s, 0 when there
\* is none: all the leading whitespace, a "(", and everything up to the
\* first ")" after it.
MatchParens(s) ==
  LET w == Len(s) - Len(LStripChars(s, Whitespace))
      closes == { j \in (w + 2)..Len(s) : s[j] = ")" }
  IN IF w < Len(s) /\ s[w + 1] = "(" /\ closes # {}
     THEN CHOOSE j \in closes : \A k \in closes : j <= k
     ELSE 0

\* SubParens that replaces the first match only (count=1)
RECURSIVE SubParensOnce(_)
SubParensOnce(s) ==
  IF s = <<>> THEN s
  ELSE LET m == MatchParens(s) IN
         IF m > 0 THEN SubSeq(s, m + 1, Len(s))
         ELSE <<Head(s)>> \o SubParensOnce(Tail(s))

\* re.sub(r'\s*\([^)]*\)', '', s): every match, scanning from the left
RECURSIVE SubParens(_)
SubParens(s) ==
  IF s = <<>> THEN s
  ELSE LET m == MatchParens(s) IN
         IF m > 0 THEN SubParens(SubSeq(s, m + 1, Len(s)))
         ELSE <<Head(s)>> \o SubParens(Tail(s))

\* lines 190-194: batch_decode(...)[0].strip()
PostDecode ==
  /\ post = "decode"
  /\ translation' = StripChars(raw, Whitespace)
  /\ post' = "parens"
  /\ UNCHANGED <<ghostVars, procVars, pipeVars, running, ttsVars, pc, req,
                 resp, exc, calls, tokenized, timed, emitted, pipe_used, raw>>

\* line 197
PostParens ==
  /\ post = "parens"
  /\ translation' = SubParens(translation)
  /\ post' = "quotes"
  /\ UNCHANGED <<ghostVars, procVars, pipeVars, running, ttsVars, pc, req,
                 resp, exc, calls, tokenized, timed, emitted, pipe_used, raw>>

\* line 198: translation.strip('"\'')
PostQuotes ==
  /\ post = "quotes"
  /\ translation' = StripChars(translation, QuoteChars)
  /\ post' = "returned"
  /\ UNCHANGED <<ghostVars, procVars, pipeVars, running, ttsVars, pc, req,
                 resp, exc, calls, tokenized, timed, emitted, pipe_used, raw>>

\* The post-processing of lines 190-198 applied to every decoded output.
InitCleanup ==
  /\ server = "translate"
  /\ proc = "serving"
  /\ local_pipe = None
  /\ loads = 1
  /\ loadFailed = FALSE
  /\ running = None
  /\ files = {}
  /\ pc = [r \in Req |-> "idle"]
  /\ req = [r \in Req |-> NoReq]
  /\ resp = [r \in Req |-> NoResp]
  /\ exc = [r \in Req |-> NoExc]
  /\ calls = [r \in Req |-> 0]
  /\ tokenized = [r \in Req |-> FALSE]
  /\ timed = [r \in Req |-> {}]
  /\ emitted = [r \in Req |-> {}]
  /\ speaker_wav = [r \in Req |-> None]
  /\ temp_file = [r \in Req |-> None]
  /\ pipe_used = [r \in Req |-> None]
  /\ init_calls = 0
  /\ ret = None
  /\ load_by = {}
  /\ overlap = [r \in Req |-> {}]
  /\ owner = [f \in {} |-> None]
  /\ raw \in Outputs
  /\ translation = <<>>
  /\ post = "decode"

NextCleanup ==
  \/ PostDecode
  \/ PostParens
  \/ PostQuotes

SpecCleanup == InitCleanup /\ [][NextCleanup]_vars

\* ================================================================ claims
\* The request texts the specification calls invalid, stated on the text
\* itself: no character other than whitespace, or more than 1000 characters.
IsBlank(t) == \A i \in DOMAIN t : IsSpace(t[i].ch)
InvalidText(t) == IsBlank(t) \/ Len_(t) > MaxTextLen

Finished(r) == pc[r] = "done"
Failed(r) == Finished(r) /\ resp[r].status >= 400

\* positions inside a call into the model
ModelCallPcs == {"in_generate", "in_latents", "in_inference", "in_pipe"}
InModelCall == { r \in Req : pc[r] \in ModelCallPcs }

\* C1: every /translate request whose text is empty, whitespace-only or
\* longer than 1000 characters is answered with status 400.
C1_InvalidTextGets400 ==
  \A r \in Req :
    (server = "translate" /\ Finished(r) /\ InvalidText(req[r].text))
      => resp[r].status = 400

\* C2: a /translate request with an invalid text never tokenizes and never
\* calls model.generate, and finishes with a failure; a request with a
\* non-blank text of at most 1000 characters is tokenized and calls
\* model.generate.
C2_ValidationGuardsBackend ==
  \A r \in Req :
    (server = "translate" /\ pc[r] # "idle") =>
      IF InvalidText(req[r].text)
      THEN /\ ~tokenized[r]
           /\ calls[r] = 0
           /\ Finished(r) => Failed(r)
      ELSE /\ pc[r] # "except" \/ calls[r] = 1
           /\ Finished(r) => (tokenized[r] /\ calls[r] = 1)

C2_Witness ==
  \E r, q \in Req :
    /\ server = "translate"
    /\ Finished(r) /\ Len_(req[r].text) = MaxTextLen /\ calls[r] = 1
    /\ Finished(q) /\ Len_(req[q].text) > MaxTextLen /\ ~IsBlank(req[q].text)
    /\ Failed(q) /\ calls[q] = 0

\* C3: a /tts request without speaker audio is answered with a 4xx status;
\* it never calls get_conditioning_latents or inference and no temporary
\* file is created for it.
C3_MissingAudioRejected ==
  \A r \in Req :
    (server = "tts" /\ pc[r] # "idle" /\ ~req[r].audio) =>
      /\ Finished(r)
      /\ resp[r].status \in 400..499
      /\ calls[r] = 0
      /\ temp_file[r] = None

C3_Witness ==
  \E r, q \in Req :
    /\ server = "tts"
    /\ Finished(r) /\ ~req[r].audio /\ resp[r].status = 422
    /\ req[q].audio /\ temp_file[q] # None

\* C4: in the transcription server, of two requests that were in progress
\* together while local_pipe was None at most one enters the loading body of
\* initialize_model, and no two loads are in flight together.
C4_SingleLoad ==
  server = "whisper" =>
    /\ \A r, q \in Req :
         (r # q /\ q \in overlap[r]) => ~(r \in load_by /\ q \in load_by)
    /\ Cardinality({ r \in Req : pc[r] = "in_load" }) <= 1

\* C5: once local_pipe is set, no call of initialize_model and no
\* /transcribe request loads again or changes local_pipe; a direct call
\* returns that same pipeline and every request calls that same pipeline.
C5_ReadyIsIdempotent ==
  [][ /\ local_pipe # None =>
           /\ local_pipe' = local_pipe
           /\ loads' = loads
           /\ init_calls' # init_calls => ret' = local_pipe
      /\ \A r \in Req : pipe_used'[r] # None => pipe_used'[r] = local_pipe'
    ]_vars

C5_Witness ==
  /\ local_pipe # None /\ loads = 1
  /\ init_calls = 2 /\ ret = local_pipe
  /\ \E r \in Req : Finished(r) /\ resp[r].status = 200 /\ pipe_used[r] = local_pipe

\* C6: once a model load has thrown, the load is never attempted again and
\* the model never becomes ready in that process.
C6_FailedIsTerminal ==
  [][ loadFailed => (loads' = loads /\ local_pipe' = None) ]_vars

\* C7: when the model load throws, the process serves no request, and no
\* caller receives a response caused by the load failure.
C7_LoadFailureAbortsStartup ==
  /\ loadFailed => \A r \in Req : resp[r] = NoResp
  /\ \A r \in Req : resp[r] # NoResp => exc[r].origin # "load"

\* C8: at most one request at a time is inside a model call.
C8_ModelCallsSerialized == Cardinality(InModelCall) <= 1

C8_Witness ==
  \E r, q \in Req :
    /\ server = "tts"
    /\ pc[r] = "in_inference"
    /\ pc[q] = "await_read"

\* C9: when the model call raises in /translate or /transcribe, the model
\* was called once for that request, the caller gets status 500 with the
\* error's message in the detail, and the process goes on serving: the event
\* loop is released and the loaded model is kept.
C9_BackendFailureIs500 ==
  \A r \in Req :
    (server \in {"translate", "whisper"} /\ exc[r].origin = "model") =>
      /\ calls[r] = 1
      /\ Finished(r) =>
           /\ resp[r].status = 500
           /\ Len(resp[r].detail) = 2
           /\ resp[r].detail[2] = exc[r].msg
           /\ proc = "serving"
           /\ running # r
           /\ server = "whisper" => local_pipe # None

C9_Witness ==
  \E r, q \in Req :
    /\ r < q
    /\ server \in {"translate", "whisper"}
    /\ exc[r].origin = "model" /\ Finished(r) /\ resp[r].status = 500
    /\ Finished(q) /\ resp[q].status = 200

\* C10: a request that fails after some stage has been timed has emitted
\* the latency record of every stage it completed.
C10_TelemetryOnFailure ==
  \A r \in Req :
    (Failed(r) /\ timed[r] # {}) => timed[r] \subseteq emitted[r]

\* the cleanup rules of lines 197-198, in order
Cleanup(s) == StripChars(SubParens(s), QuoteChars)

\* C11: the text /translate returns contains no "(" followed later by ")",
\* neither begins nor ends with a single or double quote character, and is
\* left unchanged by applying the cleanup rules (parenthetical asides, then
\* enclosing quotes) again.
C11_CleanupStripsArtifacts ==
  post = "returned" =>
    /\ ~ \E i, j \in DOMAIN translation :
           i < j /\ translation[i] = "(" /\ translation[j] = ")"
    /\ translation # <<>> =>
         (Head(translation) \notin QuoteChars /\ Last(translation) \notin QuoteChars)
    /\ Cleanup(translation) = translation

C11_Witness ==
  /\ post = "returned"
  /\ raw # <<>> /\ Head(raw) \in QuoteChars
  /\ \E i, j \in DOMAIN raw : i < j /\ raw[i] = "(" /\ raw[j] = ")"
  /\ translation # <<>> /\ translation # raw

\* C12: when a /tts handler has returned or raised, no temporary file it
\* created exists any more, whichever step failed; and a request deletes
\* only a file it created itself.
C12_NoTempFileOutlivesRequest ==
  [][ /\ \A r \in Req :
           pc'[r] = "done" => \A f \in files' : owner'[f] # r
      /\ \A r \in Req :
           pc'[r] # pc[r] => \A f \in files \ files' : owner[f] = r
    ]_vars

====
